---- MODULE Spec2Model ----
(***************************************************************************)
(* Model of ddb/core/src/discovery/mqtt_producer.rs: the MQTT discovery    *)
(* producer (MqttProducer), its monitor task, its pool of decode workers   *)
(* and the payload decoder (impl From<&str> for MqttPayload).              *)
(*                                                                         *)
(* Text is modelled as a sequence of one-character strings, unsigned       *)
(* integers as big-endian byte sequences of the integer's width (4 bytes   *)
(* for u32, 8 bytes for u64), so that overflow is the overflow of the      *)
(* type.                                                                   *)
(***************************************************************************)
EXTENDS Integers, Sequences, FiniteSets, TLC

(***************************************************************************)
(* Text helpers (the std::str operations the decoder uses)                 *)
(***************************************************************************)

\* str::split(c): the segments between the occurrences of c; "" splits to [""].
RECURSIVE Split(_, _)
Split(s, c) ==
    IF \A i \in 1..Len(s) : s[i] # c
    THEN <<s>>
    ELSE LET i == CHOOSE k \in 1..Len(s) : s[k] = c /\ \A j \in 1..(k - 1) : s[j] # c
         IN  <<SubSeq(s, 1, i - 1)>> \o Split(SubSeq(s, i + 1, Len(s)), c)

\* str::trim_start_matches(c): every leading c removed.
RECURSIVE TrimStartMatches(_, _)
TrimStartMatches(s, c) ==
    IF s # <<>> /\ Head(s) = c THEN TrimStartMatches(Tail(s), c) ELSE s

\* str::trim_end_matches(c): every trailing c removed.
RECURSIVE TrimEndMatches(_, _)
TrimEndMatches(s, c) ==
    IF s # <<>> /\ s[Len(s)] = c THEN TrimEndMatches(SubSeq(s, 1, Len(s) - 1), c) ELSE s

\* str::trim(): leading and trailing white space removed.
Trim(s) == TrimEndMatches(TrimStartMatches(s, " "), " ")

\* str::starts_with(c)
StartsWith(s, c) == s # <<>> /\ Head(s) = c

Digits == <<"0", "1", "2", "3", "4", "5", "6", "7", "8", "9">>

IsDigit(ch) == \E i \in 1..10 : Digits[i] = ch

DigitVal(ch) == (CHOOSE i \in 1..10 : Digits[i] = ch) - 1

DigitChar(n) == Digits[n + 1]

(***************************************************************************)
(* Unsigned integers of a fixed width, as big-endian bytes                 *)
(***************************************************************************)

ZeroBytes(w) == [i \in 1..w |-> 0]

IsZero(bytes) == \A i \in 1..Len(bytes) : bytes[i] = 0

\* bytes * m + a in the width of bytes; carry is what does not fit.
RECURSIVE MulAdd(_, _, _)
MulAdd(bytes, m, a) ==
    IF bytes = <<>>
    THEN [bytes |-> <<>>, carry |-> a]
    ELSE LET lo == MulAdd(Tail(bytes), m, a)
             v  == Head(bytes) * m + lo.carry
         IN  [bytes |-> <<v % 256>> \o lo.bytes, carry |-> v \div 256]

\* The digits of s accumulated into acc with checked arithmetic
\* (core::num from_str_radix: InvalidDigit, PosOverflow).
RECURSIVE ParseDigits(_, _)
ParseDigits(s, acc) ==
    IF s = <<>> THEN [ok |-> TRUE, bytes |-> acc]
    ELSE IF ~IsDigit(Head(s)) THEN [ok |-> FALSE, bytes |-> acc]
    ELSE LET r == MulAdd(acc, 10, DigitVal(Head(s)))
         IN  IF r.carry # 0
             THEN [ok |-> FALSE, bytes |-> acc]
             ELSE ParseDigits(Tail(s), r.bytes)

\* str::parse::<uN>() for an unsigned type of w bytes: an optional leading
\* '+', then at least one decimal digit, no overflow.
ParseUnsigned(s, w) ==
    LET digits == IF s # <<>> /\ Head(s) = "+" THEN Tail(s) ELSE s
    IN  IF digits = <<>>
        THEN [ok |-> FALSE, bytes |-> ZeroBytes(w)]
        ELSE ParseDigits(digits, ZeroBytes(w))

\* Display of a small unsigned integer (an octet): decimal, no leading zero.
RECURSIVE DecOf(_)
DecOf(n) ==
    IF n < 10 THEN <<DigitChar(n)>> ELSE DecOf(n \div 10) \o <<DigitChar(n % 10)>>

\* bytes divided by 10 (long division from the most significant byte).
RECURSIVE DivTen(_, _)
DivTen(bytes, rem) ==
    IF bytes = <<>>
    THEN [q |-> <<>>, r |-> rem]
    ELSE LET cur  == rem * 256 + Head(bytes)
             rest == DivTen(Tail(bytes), cur % 10)
         IN  [q |-> <<cur \div 10>> \o rest.q, r |-> rest.r]

\* Display of an unsigned integer given as bytes: decimal, no leading zero.
RECURSIVE DecOfBytes(_)
DecOfBytes(bytes) ==
    LET d == DivTen(bytes, 0)
    IN  (IF IsZero(d.q) THEN <<>> ELSE DecOfBytes(d.q)) \o <<DigitChar(d.r)>>

\* Mutant of Ipv4Display: the octets are shown least significant first.
Ipv4DisplayReversed(ip) ==
    DecOf(ip[4]) \o <<".">> \o DecOf(ip[3]) \o <<".">> \o DecOf(ip[2]) \o <<".">> \o DecOf(ip[1])

\* Display of Ipv4Addr: the four octets in decimal, joined by '.'.
Ipv4Display(ip) ==
    DecOf(ip[1]) \o <<".">> \o DecOf(ip[2]) \o <<".">> \o DecOf(ip[3]) \o <<".">> \o DecOf(ip[4])

(***************************************************************************)
(* impl From<&str> for MqttPayload                                         *)
(***************************************************************************)

\* Mutant of HashAlias: the alias is what follows the last '=', and is empty
\* when there is none.
HashAliasLast(parts) ==
    IF Len(parts) >= 4
    THEN LET identifier_parts == Split(parts[4], "=")
         IN  [hash  |-> identifier_parts[1],
              alias |-> IF Len(identifier_parts) >= 2
                        THEN identifier_parts[Len(identifier_parts)]
                        ELSE <<>>]
    ELSE [hash |-> <<>>, alias |-> <<>>]

\* The (hash, alias) of field3, or two empty strings when there is no field3.
HashAlias(parts) ==
    IF Len(parts) >= 4
    THEN LET identifier_parts == Split(parts[4], "=")
         IN  [hash  |-> identifier_parts[1],
              alias |-> IF Len(identifier_parts) >= 2
                        THEN identifier_parts[2]
                        ELSE <<"a", "p", "p">>]
    ELSE [hash |-> <<>>, alias |-> <<>>]

\* One "key=value" item of the user data: (key, value), both trimmed.
KeyValue(kv) ==
    LET kv_parts == Split(Trim(kv), "=")
    IN  [key   |-> Trim(kv_parts[1]),
         value |-> IF Len(kv_parts) >= 2 THEN Trim(kv_parts[2]) ELSE <<>>]

\* The items collected into a HashMap: a later item replaces an earlier one
\* with the same key.
CollectMap(items) ==
    LET keys == {KeyValue(items[i]).key : i \in 1..Len(items)}
        last(k) == CHOOSE i \in 1..Len(items) :
                      /\ KeyValue(items[i]).key = k
                      /\ \A j \in (i + 1)..Len(items) : KeyValue(items[j]).key # k
    IN  [k \in keys |-> KeyValue(items[last(k)]).value]

\* Mutant of UserData: the last segment is taken as user data whatever it
\* starts with.
UserDataUnchecked(parts) ==
    LET user_data == parts[Len(parts)]
        inner == TrimEndMatches(TrimStartMatches(user_data, "{"), "}")
    IN  [present |-> TRUE, map |-> CollectMap(Split(inner, ","))]

\* The user data of the last segment: present only when it starts with '{'.
UserData(parts) ==
    LET user_data == parts[Len(parts)]
    IN  IF StartsWith(user_data, "{")
        THEN LET inner == TrimEndMatches(TrimStartMatches(user_data, "{"), "}")
             IN  [present |-> TRUE, map |-> CollectMap(Split(inner, ","))]
        ELSE [present |-> FALSE, map |-> <<>>]

Panicked == [ok |-> FALSE]

\* MqttPayload::from(s). ok = FALSE is a panic of the calling thread.
MqttPayloadFrom(s) ==
    LET parts  == Split(s, ":")
        ip_int == ParseUnsigned(parts[1], 4)
    IN  IF ~ip_int.ok THEN Panicked
        ELSE IF Len(parts) < 3 THEN Panicked
        ELSE LET pid == ParseUnsigned(parts[3], 8)
             IN  IF ~pid.ok THEN Panicked
                 ELSE [ok        |-> TRUE,
                       ip        |-> ip_int.bytes,
                       tag       |-> Ipv4Display(ip_int.bytes) \o <<":", "-">>
                                        \o DecOfBytes(pid.bytes),
                       pid       |-> pid.bytes,
                       hash      |-> HashAlias(parts).hash,
                       alias     |-> HashAlias(parts).alias,
                       user_data |-> UserData(parts)]

(***************************************************************************)
(* Bounds of the model                                                     *)
(***************************************************************************)

\* Events the bus delivers to the pump in one run.
MaxEvents == 2

\* Capacity of the internal queue in the model; it stands for the capacity
\* given to flume::bounded in start_producing.
QueueCap == 1

\* Calls of start_producing that fail before one succeeds, and calls of
\* stop_producing, in one run.
MaxFailedStarts == 1

MaxStops == 2

\* Times the decoder is applied to one payload.
MaxDecodes == 2

(***************************************************************************)
(* Bus events                                                              *)
(***************************************************************************)

\* let concurrency = 3;
Concurrency == 3

Workers == 1..Concurrency

EventKinds == {"good", "badutf8", "badnum", "other"}

\* The rumqttc::Event of each kind: whether it is Incoming(Publish), whether
\* its payload is valid UTF-8, and the payload text.
EventOf(kind) ==
    CASE kind = "good" ->
           [publish |-> TRUE, utf8 |-> TRUE,
            payload |-> <<"2", "5", "8", ":", "0", ":", "7", ":", "h", "=", "w">>]
      [] kind = "badnum" ->
           [publish |-> TRUE, utf8 |-> TRUE,
            payload |-> <<"x", ":", "0", ":", "7">>]
      [] kind = "badutf8" ->
           [publish |-> TRUE, utf8 |-> FALSE, payload |-> <<>>]
      [] OTHER ->
           [publish |-> FALSE, utf8 |-> FALSE, payload |-> <<>>]

NoEvent == [id |-> 0, kind |-> "none"]

\* Mutant of BodyOutcome: a payload that is not valid UTF-8 is decoded all the
\* same.
BodyOutcomeLossy(kind) ==
    LET e == EventOf(kind)
    IN  IF ~e.publish THEN "skip"
        ELSE IF e.utf8 /\ ~MqttPayloadFrom(e.payload).ok THEN "panic"
        ELSE "send"

\* What the loop body does with an event of a kind: "skip" (not a publish, or
\* invalid UTF-8), "panic" (MqttPayload::from unwraps an Err or indexes past
\* the parts), or "send" (a ServiceInfo is built and sent).
BodyOutcome(kind) ==
    LET e == EventOf(kind)
    IN  IF ~e.publish THEN "skip"
        ELSE IF ~e.utf8 THEN "skip"
        ELSE IF ~MqttPayloadFrom(e.payload).ok THEN "panic"
        ELSE "send"

\* BodyOutcome of every kind, computed once.
OutcomeOf == [kind \in EventKinds \cup {"none"} |-> BodyOutcome(kind)]

Outcome(ev) == OutcomeOf[ev.kind]

\* The ids of the well-formed publish events of a sequence of events.
GoodIds(evs) == {evs[i].id : i \in {k \in DOMAIN evs : Outcome(evs[k]) = "send"}}

(***************************************************************************)
(* State                                                                   *)
(***************************************************************************)

VARIABLES
    managed_broker, \* MqttProducer.managed_broker is Some
    broker_up,      \* the managed broker process is started
    sig_stop,       \* the value held by the watch channel of sig_stop
    rx_count,       \* live watch::Receiver's of sig_stop
    handles,        \* MqttProducer.handles: the tracked worker tasks
    chan,           \* "none" before flume::bounded, "open" after
    queue,          \* the events in the internal queue
    mon_pc,         \* where the monitor task is
    mon_ev,         \* the event the monitor is blocked sending
    wpc,            \* where each worker task is
    wev,            \* the event each worker holds
    aborted,        \* abort() was called on the worker's JoinHandle
    out,            \* the events whose ServiceInfo reached the output channel
    out_closed,     \* every receiver of the output channel is dropped
    produced,       \* events the pump has taken from the bus
    ctl,            \* the calls made on the producer, their inputs and results
    enq,            \* history: ids of the well-formed publish events enqueued
    at_stop,        \* history: ids of the well-formed events in flight at a stop
    dec_fields,     \* decoder check: the colon-delimited fields of the payload
    dec_in,         \* decoder check: the payload text
    dec_out         \* decoder check: the results of MqttPayload::from(dec_in)

vars == <<managed_broker, broker_up, sig_stop, rx_count, handles, chan, queue,
          mon_pc, mon_ev, wpc, wev, aborted, out, out_closed, produced, ctl,
          enq, at_stop, dec_fields, dec_in, dec_out>>

pipeVars == <<managed_broker, broker_up, sig_stop, rx_count, handles, chan, queue,
              mon_pc, mon_ev, wpc, wev, aborted, out, out_closed, produced, ctl,
              enq, at_stop>>

decVars == <<dec_fields, dec_in, dec_out>>

\* MqttProducer::new: no handle, the latch false and its first receiver
\* dropped at once.
New(broker) ==
    /\ managed_broker = broker
    /\ broker_up = FALSE
    /\ sig_stop = FALSE
    /\ rx_count = 0
    /\ handles = <<>>
    /\ chan = "none"
    /\ queue = <<>>
    /\ mon_pc = "none"
    /\ mon_ev = NoEvent
    /\ wpc = [w \in Workers |-> "none"]
    /\ wev = [w \in Workers |-> NoEvent]
    /\ aborted = [w \in Workers |-> FALSE]
    /\ out = <<>>
    /\ out_closed = FALSE
    /\ produced = 0
    /\ ctl = [failed_starts |-> 0, stops |-> 0, last_start |-> "none",
              last_stop |-> "none", broker_stops |-> 0, sends |-> 0, last_aborts |-> 0,
              in_broker_ok |-> FALSE, in_online |-> FALSE, in_stop_ok |-> FALSE]
    /\ enq = {}
    /\ at_stop = [queued |-> {}, held |-> {}]

Init ==
    /\ \E broker \in BOOLEAN : New(broker)
    /\ dec_fields = <<>>
    /\ dec_in = <<>>
    /\ dec_out = <<>>

(***************************************************************************)
(* The internal queue (flume::bounded) and the tasks' liveness             *)
(***************************************************************************)

MonitorAlive == mon_pc \in {"subscribing", "pump", "blocked"}

MonitorDone == mon_pc \in {"exit_subscribe", "exit_stop", "exit_bus", "exit_send"}

WorkerAlive(w) == wpc[w] \in {"wait", "run", "have"}

WorkerDone(w) == wpc[w] \in {"exited", "panicked", "cancelled"}

\* The monitor task owns the only Sender left after start_producing returns.
SendersAlive == MonitorAlive

\* Each worker task owns one Receiver; the one of start_producing is dropped
\* when it returns.
ReceiversAlive == \E w \in Workers : WorkerAlive(w)

(***************************************************************************)
(* MqttProducer::start_producing                                           *)
(***************************************************************************)

\* Mutant of StartResult: the result of check_broker_online is ignored.
StartResultUnchecked(broker_ok, online) ==
    IF managed_broker /\ ~broker_ok THEN "err_broker" ELSE "ok"

\* What start_producing returns, given the results of broker.start and of
\* check_broker_online.
StartResult(broker_ok, online) ==
    IF managed_broker /\ ~broker_ok THEN "err_broker"
    ELSE IF ~online THEN "err_online"
    ELSE "ok"

\* Mutant of SpawnPipeline: the handle of the monitor task (written 0) is
\* pushed too.
SpawnPipelineTrackingMonitor ==
    /\ chan' = "open"
    /\ queue' = <<>>
    /\ rx_count' = rx_count + 1
    /\ mon_pc' = "subscribing"
    /\ wpc' = [w \in Workers |-> "wait"]
    /\ handles' = handles \o <<0>> \o [i \in 1..Concurrency |-> i]

\* Steps 2..3 after both checks passed: the queue, the monitor task (which
\* subscribes to sig_stop before it is spawned) and the three workers, whose
\* handles are pushed.
SpawnPipeline ==
    /\ chan' = "open"
    /\ queue' = <<>>
    /\ rx_count' = rx_count + 1
    /\ mon_pc' = "subscribing"
    /\ wpc' = [w \in Workers |-> "wait"]
    /\ handles' = handles \o [i \in 1..Concurrency |-> i]

\* The results the managed broker's start or stop can give; with no managed
\* broker neither is called and nothing can fail there.
BrokerResults == IF managed_broker THEN BOOLEAN ELSE {TRUE}

\* Mutant of StartProducing: the broker it started is stopped again when the
\* liveness check fails.
StartProducingCleansUp ==
    /\ chan = "none"
    /\ \E broker_ok \in BrokerResults, online \in BOOLEAN :
         LET res == StartResult(broker_ok, online)
         IN  /\ res # "ok" => ctl.failed_starts < MaxFailedStarts
             /\ broker_up' = IF managed_broker /\ broker_ok THEN online ELSE broker_up
             /\ ctl' = [ctl EXCEPT !.failed_starts = IF res = "ok" THEN 0 ELSE @ + 1,
                                   !.last_start = res,
                                   !.in_broker_ok = broker_ok,
                                   !.in_online = online]
             /\ IF res = "ok"
                THEN SpawnPipeline
                ELSE UNCHANGED <<chan, queue, rx_count, mon_pc, wpc, handles>>
    /\ UNCHANGED <<managed_broker, sig_stop, mon_ev, wev, aborted, out, out_closed,
                   produced, decVars, enq, at_stop>>

\* ctl.failed_starts counts the calls that failed since the last one that
\* succeeded; a failed call can be retried.
StartProducing ==
    /\ chan = "none"
    /\ \E broker_ok \in BrokerResults, online \in BOOLEAN :
         LET res == StartResult(broker_ok, online)
         IN  /\ res # "ok" => ctl.failed_starts < MaxFailedStarts
             /\ broker_up' = IF managed_broker /\ broker_ok THEN TRUE ELSE broker_up
             /\ ctl' = [ctl EXCEPT !.failed_starts = IF res = "ok" THEN 0 ELSE @ + 1,
                                   !.last_start = res,
                                   !.in_broker_ok = broker_ok,
                                   !.in_online = online]
             /\ IF res = "ok"
                THEN SpawnPipeline
                ELSE UNCHANGED <<chan, queue, rx_count, mon_pc, wpc, handles>>
    /\ UNCHANGED <<managed_broker, sig_stop, mon_ev, wev, aborted, out, out_closed,
                   produced, decVars, enq, at_stop>>

(***************************************************************************)
(* MqttProducer::stop_producing                                            *)
(***************************************************************************)

Tracked == {handles[i] : i \in 1..Len(handles)}

\* Mutant of AbortTracked: every live task stops at once, whatever it holds.
AbortAtOnce ==
    /\ aborted' = [w \in Workers |-> aborted[w] \/ w \in Tracked]
    /\ wpc' = [w \in Workers |->
                 IF w \in Tracked /\ wpc[w] \in {"wait", "run", "have"}
                 THEN "cancelled" ELSE wpc[w]]

\* Mutant of AbortTracked: the loop misses the last handle.
AbortAllButLast ==
    LET some == {handles[i] : i \in 1..(Len(handles) - 1)}
    IN  /\ aborted' = [w \in Workers |-> aborted[w] \/ w \in some]
        /\ wpc' = [w \in Workers |->
                     IF w \in some /\ wpc[w] = "wait" THEN "cancelled" ELSE wpc[w]]

\* JoinHandle::abort on every tracked handle: a task suspended at an await is
\* cancelled without being polled again; a task that is being polled is
\* cancelled when that poll next returns Pending; a finished task is left.
AbortTracked ==
    /\ aborted' = [w \in Workers |-> aborted[w] \/ w \in Tracked]
    /\ wpc' = [w \in Workers |->
                 IF w \in Tracked /\ wpc[w] = "wait" THEN "cancelled" ELSE wpc[w]]

\* Mutant of SendStop: the signal is never sent.
SendStopNever == sig_stop

\* watch::Sender::send(true): with no receiver alive it fails and leaves the
\* value as it was.
SendStop == IF rx_count > 0 THEN TRUE ELSE sig_stop

\* Mutant of StopResult: the error of broker.stop is swallowed.
StopResultSwallowed(stop_ok) == "ok"

\* What stop_producing returns, given the result of broker.stop.
StopResult(stop_ok) ==
    IF managed_broker /\ ~stop_ok THEN "err" ELSE "ok"

StopProducing ==
    /\ ctl.stops < MaxStops
    /\ \E stop_ok \in BrokerResults :
         /\ AbortTracked
         /\ handles' = <<>>
         /\ sig_stop' = SendStop
         /\ broker_up' = IF managed_broker /\ stop_ok THEN FALSE ELSE broker_up
         /\ ctl' = [ctl EXCEPT !.stops = @ + 1,
                               !.sends = @ + 1,
                               !.broker_stops = IF managed_broker THEN @ + 1 ELSE @,
                               !.last_stop = StopResult(stop_ok),
                               !.last_aborts = Len(handles),
                               !.in_stop_ok = stop_ok]
    /\ at_stop' = [queued |-> at_stop.queued \cup GoodIds(queue),
                   held   |-> at_stop.held \cup
                                GoodIds([w \in Workers |-> wev[w]])]
    /\ UNCHANGED <<managed_broker, rx_count, chan, queue, mon_pc, mon_ev, wev, out,
                   out_closed, produced, decVars, enq>>

(***************************************************************************)
(* The monitor task (MqttProducer::monitor)                                *)
(***************************************************************************)

\* The task ends: its watch::Receiver and its Sender are dropped with it.
MonitorExit(how) ==
    /\ mon_pc' = how
    /\ mon_ev' = NoEvent
    /\ rx_count' = rx_count - 1

\* Mutant of MonitorSubscribe: a failed subscribe is tried again.
MonitorSubscribeRetrying ==
    /\ mon_pc \in {"subscribing", "exit_subscribe"}
    /\ \E ok \in BOOLEAN :
         /\ mon_pc' = IF ok THEN "pump" ELSE "exit_subscribe"
         /\ UNCHANGED <<mon_ev, rx_count>>
    /\ UNCHANGED <<managed_broker, broker_up, sig_stop, handles, chan, queue, wpc, wev,
                   aborted, out, out_closed, produced, ctl, decVars, enq, at_stop>>

\* client.subscribe(...).await: on Ok the pump is entered, on Err the task
\* logs and ends.
MonitorSubscribe ==
    /\ mon_pc = "subscribing"
    /\ \E ok \in BOOLEAN :
         IF ok
         THEN mon_pc' = "pump" /\ UNCHANGED <<mon_ev, rx_count>>
         ELSE MonitorExit("exit_subscribe")
    /\ UNCHANGED <<managed_broker, broker_up, sig_stop, handles, chan, queue, wpc, wev,
                   aborted, out, out_closed, produced, ctl, decVars, enq, at_stop>>

\* Mutant of QueueHasRoom: the queue is unbounded.
QueueUnbounded == TRUE

\* flume::bounded(cap): a send completes at once while fewer than cap events
\* are queued.
QueueHasRoom == Len(queue) < QueueCap

\* client.handle: the pump takes the next event from the bus and sends it into
\* the queue; a full queue blocks the send, a queue with no receiver fails it
\* and the pump returns the error.
MonitorForward ==
    /\ mon_pc = "pump"
    /\ produced < MaxEvents
    /\ \E kind \in EventKinds :
         LET ev == [id |-> produced + 1, kind |-> kind]
         IN  /\ produced' = produced + 1
             /\ IF ~ReceiversAlive
                THEN MonitorExit("exit_send") /\ UNCHANGED <<queue, enq>>
                ELSE IF QueueHasRoom
                THEN /\ queue' = Append(queue, ev)
                     /\ enq' = enq \cup GoodIds(<<ev>>)
                     /\ UNCHANGED <<mon_pc, mon_ev, rx_count>>
                ELSE /\ mon_pc' = "blocked"
                     /\ mon_ev' = ev
                     /\ UNCHANGED <<queue, rx_count, enq>>
    /\ UNCHANGED <<managed_broker, broker_up, sig_stop, handles, chan, wpc, wev, aborted,
                   out, out_closed, ctl, decVars, at_stop>>

\* client.handle: the send blocked on the full queue fails once every receiver
\* is dropped.
MonitorSendFail ==
    /\ mon_pc = "blocked"
    /\ ~ReceiversAlive
    /\ MonitorExit("exit_send")
    /\ UNCHANGED <<managed_broker, broker_up, sig_stop, handles, chan, queue, wpc, wev,
                   aborted, out, out_closed, produced, ctl, decVars, enq, at_stop>>

\* client.handle: the pump polls the stop signal and returns.
MonitorStop ==
    /\ mon_pc = "pump"
    /\ sig_stop
    /\ MonitorExit("exit_stop")
    /\ UNCHANGED <<managed_broker, broker_up, sig_stop, handles, chan, queue, wpc, wev,
                   aborted, out, out_closed, produced, ctl, decVars, enq, at_stop>>

\* client.handle: the bus connection fails, the pump returns the error.
MonitorBusError ==
    /\ mon_pc = "pump"
    /\ MonitorExit("exit_bus")
    /\ UNCHANGED <<managed_broker, broker_up, sig_stop, handles, chan, queue, wpc, wev,
                   aborted, out, out_closed, produced, ctl, decVars, enq, at_stop>>

(***************************************************************************)
(* The worker tasks (the loop spawned by start_producing)                  *)
(***************************************************************************)

\* Mutant of WorkerRecv: the event is read but left in the queue, as on a
\* broadcast channel.
WorkerRecvBroadcast(w) ==
    /\ wpc[w] \in {"wait", "run"}
    /\ queue # <<>>
    /\ wpc' = [wpc EXCEPT ![w] = "have"]
    /\ wev' = [wev EXCEPT ![w] = Head(queue)]
    /\ UNCHANGED <<managed_broker, broker_up, sig_stop, rx_count, handles, chan, queue,
                   mon_pc, mon_ev, aborted, out, out_closed, produced, ctl, decVars,
                   enq, at_stop>>

\* Mutant of WorkerRecv: the receive returns the newest pending event: that of
\* the blocked sender if there is one, else the last of the queue.
WorkerRecvNewest(w) ==
    /\ wpc[w] \in {"wait", "run"}
    /\ queue # <<>>
    /\ wpc' = [wpc EXCEPT ![w] = "have"]
    /\ IF mon_pc = "blocked"
       THEN /\ wev' = [wev EXCEPT ![w] = mon_ev]
            /\ enq' = enq \cup GoodIds(<<mon_ev>>)
            /\ mon_pc' = "pump"
            /\ mon_ev' = NoEvent
            /\ UNCHANGED queue
       ELSE /\ wev' = [wev EXCEPT ![w] = queue[Len(queue)]]
            /\ queue' = SubSeq(queue, 1, Len(queue) - 1)
            /\ UNCHANGED <<mon_pc, mon_ev, enq>>
    /\ UNCHANGED <<managed_broker, broker_up, sig_stop, rx_count, handles, chan, aborted,
                   out, out_closed, produced, ctl, decVars, at_stop>>

\* event_rx.recv_async().await returns Ok(event): the head of the queue. A
\* send blocked on the full queue is completed by the receive that frees the
\* slot.
WorkerRecv(w) ==
    /\ wpc[w] \in {"wait", "run"}
    /\ queue # <<>>
    /\ wpc' = [wpc EXCEPT ![w] = "have"]
    /\ wev' = [wev EXCEPT ![w] = Head(queue)]
    /\ IF mon_pc = "blocked"
       THEN /\ queue' = Append(Tail(queue), mon_ev)
            /\ enq' = enq \cup GoodIds(<<mon_ev>>)
            /\ mon_pc' = "pump"
            /\ mon_ev' = NoEvent
       ELSE /\ queue' = Tail(queue)
            /\ UNCHANGED <<mon_pc, mon_ev, enq>>
    /\ UNCHANGED <<managed_broker, broker_up, sig_stop, rx_count, handles, chan, aborted,
                   out, out_closed, produced, ctl, decVars, at_stop>>

\* recv_async() returns Pending on the empty queue: the task is suspended, or,
\* if abort() was called during this poll, cancelled.
WorkerSuspend(w) ==
    /\ wpc[w] = "run"
    /\ queue = <<>>
    /\ SendersAlive
    /\ wpc' = [wpc EXCEPT ![w] = IF aborted[w] THEN "cancelled" ELSE "wait"]
    /\ UNCHANGED <<managed_broker, broker_up, sig_stop, rx_count, handles, chan, queue,
                   mon_pc, mon_ev, wev, aborted, out, out_closed, produced, ctl, decVars, enq, at_stop>>

\* recv_async() returns Err: the queue is empty and every sender is dropped;
\* the while-let loop ends and so does the task.
WorkerExit(w) ==
    /\ wpc[w] \in {"wait", "run"}
    /\ queue = <<>>
    /\ ~SendersAlive
    /\ wpc' = [wpc EXCEPT ![w] = "exited"]
    /\ UNCHANGED <<managed_broker, broker_up, sig_stop, rx_count, handles, chan, queue,
                   mon_pc, mon_ev, wev, aborted, out, out_closed, produced, ctl, decVars, enq, at_stop>>

\* Mutant of WorkerProcess: a failed send ends the loop.
WorkerProcessStopOnSendError(w) ==
    /\ wpc[w] = "have"
    /\ LET o == Outcome(wev[w])
       IN  /\ wpc' = [wpc EXCEPT ![w] = IF o = "panic" THEN "panicked"
                                        ELSE IF o = "send" /\ out_closed THEN "exited"
                                        ELSE "run"]
           /\ out' = IF o = "send" /\ ~out_closed THEN Append(out, wev[w]) ELSE out
    /\ wev' = [wev EXCEPT ![w] = NoEvent]
    /\ UNCHANGED <<managed_broker, broker_up, sig_stop, rx_count, handles, chan, queue,
                   mon_pc, mon_ev, aborted, out_closed, produced, ctl, decVars, enq, at_stop>>

\* The body of the loop for the event the worker holds. send_async fails when
\* the output channel has no receiver; the error is logged and the loop goes on.
WorkerProcess(w) ==
    /\ wpc[w] = "have"
    /\ LET o == Outcome(wev[w])
       IN  /\ wpc' = [wpc EXCEPT ![w] = IF o = "panic" THEN "panicked" ELSE "run"]
           /\ out' = IF o = "send" /\ ~out_closed THEN Append(out, wev[w]) ELSE out
    /\ wev' = [wev EXCEPT ![w] = NoEvent]
    /\ UNCHANGED <<managed_broker, broker_up, sig_stop, rx_count, handles, chan, queue,
                   mon_pc, mon_ev, aborted, out_closed, produced, ctl, decVars, enq, at_stop>>

\* The consumer of the output channel drops its receiver.
CloseOutput ==
    /\ chan = "open"
    /\ ~out_closed
    /\ out_closed' = TRUE
    /\ UNCHANGED <<managed_broker, broker_up, sig_stop, rx_count, handles, chan, queue,
                   mon_pc, mon_ev, wpc, wev, aborted, out, produced, ctl, decVars, enq, at_stop>>

(***************************************************************************)
(* The producer                                                            *)
(***************************************************************************)

Next ==
    \/ StartProducing
    \/ StopProducing
    \/ MonitorSubscribe
    \/ MonitorForward
    \/ MonitorSendFail
    \/ MonitorStop
    \/ MonitorBusError
    \/ \E w \in Workers : WorkerRecv(w)
    \/ \E w \in Workers : WorkerSuspend(w)
    \/ \E w \in Workers : WorkerExit(w)
    \/ \E w \in Workers : WorkerProcess(w)
    \/ CloseOutput

Spec == Init /\ [][Next]_vars

(***************************************************************************)
(* The decoder applied to payloads built from fields                       *)
(***************************************************************************)

\* The texts each field of a payload is drawn from. No field holds a ':'.
Field0Texts ==
    {<<"1", "6", "9", "0", "9", "0", "6", "0">>,
     <<"4", "2", "9", "4", "9", "6", "7", "2", "9", "5">>,
     <<"4", "2", "9", "4", "9", "6", "7", "2", "9", "6">>,
     <<"+", "7">>,
     <<"0", "0", "7">>,
     <<"x">>,
     <<>>}

Field1Texts ==
    {<<"0">>,
     <<"z", "z">>,
     <<>>}

Field2Texts ==
    {<<"4", "3", "2", "1">>,
     <<"1", "8", "4", "4", "6", "7", "4", "4", "0", "7", "3", "7", "0", "9", "5", "5", "1", "6", "1", "5">>,
     <<"1", "8", "4", "4", "6", "7", "4", "4", "0", "7", "3", "7", "0", "9", "5", "5", "1", "6", "1", "6">>,
     <<"0", "0", "7">>,
     <<"p">>,
     <<>>}

Field3Texts ==
    {<<"a", "b", "c", "1", "2", "3", "=", "w", "o", "r", "k", "e", "r">>,
     <<"h">>,
     <<>>,
     <<"=", "w">>,
     <<"h", "=">>,
     <<"h", "=", "w", "=", "z">>,
     <<"{", "k", "=", "v", "}">>,
     <<"a", "=", "=", "b">>}

Field4Texts ==
    {<<"{", "k", "1", "=", "v", "1", ",", "k", "2", "=", "v", "2", "}">>,
     <<"t">>,
     <<"{", " ", "k", " ", "=", " ", "v", " ", ",", "q", ",", "k", "=", "2", "=", "3", "}">>,
     <<"{", "}">>,
     <<"{", "{", "a", "}", "}">>}

\* The field lists of the payloads: one or two fields, three, four or five.
FieldLists ==
    {<<f0>> : f0 \in Field0Texts}
      \cup {<<f0, f1>> : f0 \in Field0Texts, f1 \in Field1Texts}
      \cup {<<f0, f1, f2>> : f0 \in Field0Texts, f1 \in Field1Texts, f2 \in Field2Texts}
      \cup {<<f0, f1, f2, f3>> : f0 \in Field0Texts, f1 \in Field1Texts,
                                 f2 \in Field2Texts, f3 \in Field3Texts}
      \cup {<<f0, f1, f2, f3, f4>> : f0 \in Field0Texts, f1 \in Field1Texts,
                                     f2 \in Field2Texts, f3 \in Field3Texts,
                                     f4 \in Field4Texts}

\* The payload text of a list of fields: the fields joined by ':'.
RECURSIVE JoinFields(_)
JoinFields(fs) ==
    IF Len(fs) = 1 THEN fs[1] ELSE fs[1] \o <<":">> \o JoinFields(Tail(fs))

DecInit ==
    /\ New(FALSE)
    /\ dec_fields \in FieldLists
    /\ dec_in = JoinFields(dec_fields)
    /\ dec_out = <<>>

\* A worker's call MqttPayload::from(payload_str).
Decode ==
    /\ Len(dec_out) < MaxDecodes
    /\ dec_out' = Append(dec_out, MqttPayloadFrom(dec_in))
    /\ UNCHANGED <<pipeVars, dec_fields, dec_in>>

DecNext == Decode

DecSpec == DecInit /\ [][DecNext]_vars

\* A step of a spawned task: of a worker, or of the monitor other than taking
\* an event from the bus or losing the connection.
TaskStep ==
    \/ MonitorSubscribe
    \/ MonitorSendFail
    \/ MonitorStop
    \/ \E w \in Workers : WorkerRecv(w)
    \/ \E w \in Workers : WorkerSuspend(w)
    \/ \E w \in Workers : WorkerExit(w)
    \/ \E w \in Workers : WorkerProcess(w)

\* The runtime keeps polling runnable tasks: as long as some task can take a
\* step, some task does. Nothing obliges the bus to deliver or to fail, the
\* consumer to leave, or the caller to start or stop.
Fairness == WF_vars(TaskStep)

FairSpec == Init /\ [][Next]_vars /\ Fairness

(***************************************************************************)
(* Properties                                                              *)
(***************************************************************************)

OutIds == {out[i].id : i \in 1..Len(out)}

HeldIds == {wev[w].id : w \in {v \in Workers : wpc[v] = "have"}}

QueueIds == {queue[i].id : i \in 1..Len(queue)}

\* How many times event id occurs in the queue, in the workers' hands and on
\* the output channel together.
Occurrences(id) ==
    Cardinality({i \in 1..Len(queue) : queue[i].id = id})
      + Cardinality({w \in Workers : wev[w].id = id})
      + Cardinality({i \in 1..Len(out) : out[i].id = id})

\* A failure was induced or stop_producing was called.
Failure ==
    \/ ctl.stops > 0
    \/ out_closed
    \/ \E w \in Workers : wpc[w] = "panicked"

AllWorkersDone == \A w \in Workers : WorkerDone(w)

C1_Conserved ==
    ~Failure =>
        /\ OutIds \subseteq enq
        /\ \A id \in enq : Occurrences(id) = 1

\* C1: with no failure and no stop, every well-formed publish event that was
\* enqueued is at any time in exactly one place (the queue, one worker's hands
\* or the output channel, where it occurs once), and it eventually reaches the
\* output channel.
C1_ExactlyOnceDelivery ==
    /\ []C1_Conserved
    /\ \A id \in 1..MaxEvents : (id \in enq) ~> (id \in OutIds \/ Failure)

\* C1 witness: MaxEvents well-formed events were enqueued and all of them were
\* delivered, with no failure.
C1_Witness ==
    /\ ~Failure
    /\ enq = 1..MaxEvents
    /\ OutIds = 1..MaxEvents
    /\ Len(out) = MaxEvents

\* C2 (as claimed): no worker dies of a message it could not decode.
C2_WorkerSurvivesMalformed == \A w \in Workers : wpc[w] # "panicked"

\* C3 (as claimed): once the workers are gone, every well-formed event that was
\* in the queue or in a worker's hands at a stop_producing call is on the
\* output channel (the channel being open).
C3_NoInflightLoss ==
    (AllWorkersDone /\ ~out_closed) =>
        (at_stop.queued \cup at_stop.held) \subseteq OutIds

\* C3 (amended): a well-formed event a worker had already dequeued when
\* stop_producing was called is still in that worker's hands or was forwarded
\* (unless the output channel was closed), and no event in flight at the stop
\* is delivered twice; an event still in the queue at the stop may be lost.
C3_HeldStillForwarded ==
    /\ \A id \in at_stop.held : id \in OutIds \/ id \in HeldIds \/ out_closed
    /\ \A id \in at_stop.queued \cup at_stop.held :
         Cardinality({i \in 1..Len(out) : out[i].id = id}) <= 1

\* C3 witness: every worker is gone after a stop, and an event that a worker
\* held when stop_producing was called is on the output channel.
C3_Witness ==
    /\ at_stop.held # {}
    /\ at_stop.held \subseteq OutIds
    /\ AllWorkersDone
    /\ ~out_closed

\* stop_producing was called after the start_producing that succeeded: only
\* that empties the handles the start pushed.
StoppedRunning == chan = "open" /\ handles = <<>>

AllTasksDone == MonitorDone /\ AllWorkersDone

\* C4: after stop_producing is called on a running producer, the monitor task
\* and the three workers all terminate.
C4_TasksTerminate == StoppedRunning ~> AllTasksDone

\* C4 witness: after a stop the pump saw the signal and returned, and every
\* worker is gone, one of them cancelled.
C4_Witness ==
    /\ StoppedRunning
    /\ mon_pc = "exit_stop"
    /\ AllWorkersDone
    /\ \E w \in Workers : wpc[w] = "cancelled"

StopStep == ctl'.stops = ctl.stops + 1

StartStep ==
    \/ ctl'.failed_starts = ctl.failed_starts + 1
    \/ chan = "none" /\ chan' = "open"

\* C5: a stop_producing call leaves no tracked handle and has aborted every
\* handle that was tracked (a suspended worker is cancelled); it sends the stop
\* signal once and calls the broker's stop once when a broker is managed; a call
\* with no tracked handle aborts nothing; only the broker's stop can fail it.
C5_StopClearsHandles ==
    [][StopStep =>
         /\ handles' = <<>>
         /\ \A w \in Tracked : aborted'[w] /\ wpc'[w] # "wait"
         /\ ctl'.last_aborts = Len(handles)
         /\ handles = <<>> => (ctl'.last_aborts = 0 /\ aborted' = aborted /\ wpc' = wpc)
         /\ ctl'.sends = ctl.sends + 1
         /\ ctl'.broker_stops = ctl.broker_stops + (IF managed_broker THEN 1 ELSE 0)
         /\ ctl'.last_stop = "err" => (managed_broker /\ ~ctl'.in_stop_ok)
      ]_vars

\* C5 witness: start_producing, then two stop_producing calls with a managed
\* broker: the second aborted nothing and called the broker's stop again.
C5_Witness ==
    /\ chan = "open"
    /\ managed_broker
    /\ ctl.stops = 2
    /\ ctl.last_aborts = 0
    /\ ctl.sends = 2
    /\ ctl.broker_stops = 2
    /\ handles = <<>>

\* C6: a start_producing call that returns an error (the managed broker's start
\* or the liveness check failed) creates no queue, no monitor and no worker and
\* leaves the handles and the stop latch as they were; a call returns Ok only
\* when the broker's start (if a broker is managed) and the liveness check
\* succeeded.
C6_FailedStartCreatesNothing ==
    [][StartStep =>
         /\ ctl'.last_start # "ok" <=>
               ((managed_broker /\ ~ctl'.in_broker_ok) \/ ~ctl'.in_online)
         /\ ctl'.last_start # "ok" =>
               UNCHANGED <<chan, queue, mon_pc, mon_ev, wpc, wev, handles, sig_stop,
                           rx_count>>
         /\ ctl'.last_start = "ok" =>
               /\ ctl'.in_online
               /\ managed_broker => (ctl'.in_broker_ok /\ broker_up')
               /\ chan' = "open"
      ]_vars

\* C6 witness: the liveness check failed after the managed broker had started:
\* no pipeline exists.
C6_Witness ==
    /\ ctl.last_start = "err_online"
    /\ managed_broker
    /\ ctl.in_broker_ok
    /\ chan = "none"
    /\ mon_pc = "none"
    /\ handles = <<>>

\* C7: stop_producing returns an error exactly when a broker is managed and its
\* stop fails; by then the tracked handles are aborted and cleared and the stop
\* signal is sent (the latch is true if a receiver was alive).
C7_StopErrorOnlyFromBroker ==
    [][StopStep =>
         /\ ctl'.last_stop = "err" <=> (managed_broker /\ ~ctl'.in_stop_ok)
         /\ ~managed_broker => ctl'.last_stop = "ok"
         /\ ctl'.last_stop = "err" =>
               /\ handles' = <<>>
               /\ \A w \in Tracked : aborted'[w]
               /\ ctl'.sends = ctl.sends + 1
               /\ rx_count > 0 => sig_stop'
      ]_vars

\* C7 witness: a stop on a running producer failed in the broker's stop; the
\* handles are cleared, the workers aborted and the latch set.
C7_Witness ==
    /\ ctl.last_stop = "err"
    /\ chan = "open"
    /\ handles = <<>>
    /\ sig_stop
    /\ \A w \in Workers : aborted[w]

\* The kinds of event whose payload is a publish in valid UTF-8 that decodes.
Decodable ==
    {kind \in EventKinds :
        /\ EventOf(kind).publish
        /\ EventOf(kind).utf8
        /\ MqttPayloadFrom(EventOf(kind).payload).ok}

\* C8: every record on the output channel is that of a publish event with a
\* valid UTF-8 payload that decoded, which a worker has dequeued and is done
\* with; no event has two records.
C8_OnlyDecodedForwarded ==
    /\ \A i \in 1..Len(out) :
         /\ out[i].kind \in Decodable
         /\ out[i].id \in (enq \ QueueIds) \ HeldIds
    /\ \A i, j \in 1..Len(out) : out[i].id = out[j].id => i = j
    /\ Len(out) <= Cardinality((enq \ QueueIds) \ HeldIds)

\* C8 witness: two events were consumed with no panic and no failure to send,
\* and only one record was produced: the other event was not a publish or not
\* valid UTF-8.
C8_Witness ==
    /\ produced = 2
    /\ Len(out) = 1
    /\ queue = <<>>
    /\ mon_pc = "pump"
    /\ \A w \in Workers : wpc[w] \in {"wait", "run"}
    /\ ~out_closed

\* C9: the queue never holds more than its capacity; a blocked monitor holds
\* its event while the queue is full, makes no progress on it, and the event
\* enters the queue, behind the others, with the receive that frees a slot; it
\* is given up only when no receiver is left.
C9_BoundedQueueBlocks ==
    /\ [](Len(queue) <= QueueCap)
    /\ [](mon_pc = "blocked" =>
            (Len(queue) = QueueCap /\ mon_ev # NoEvent /\ mon_ev.id \notin QueueIds))
    /\ [][mon_pc = "blocked" =>
            \/ mon_pc' = "blocked" /\ mon_ev' = mon_ev /\ queue' = queue
            \/ /\ mon_pc' = "pump"
               /\ queue' = Append(Tail(queue), mon_ev)
               /\ \E w \in Workers : wpc'[w] = "have" /\ wev'[w] = Head(queue)
            \/ mon_pc' = "exit_send" /\ ~ReceiversAlive /\ queue' = queue
         ]_vars

\* C9 witness: the queue is full and the monitor is blocked on its send while
\* workers are alive.
C9_Witness ==
    /\ mon_pc = "blocked"
    /\ Len(queue) = QueueCap
    /\ ReceiversAlive

HasChar(s, c) == \E i \in 1..Len(s) : s[i] = c

\* The text of s before its first c (all of s when it holds none).
Before(s, c) ==
    IF HasChar(s, c)
    THEN SubSeq(s, 1, (CHOOSE i \in 1..Len(s) :
                          s[i] = c /\ \A j \in 1..(i - 1) : s[j] # c) - 1)
    ELSE s

\* The text of s after its first c.
After(s, c) ==
    SubSeq(s, (CHOOSE i \in 1..Len(s) : s[i] = c /\ \A j \in 1..(i - 1) : s[j] # c) + 1,
           Len(s))

Decoded == dec_out # <<>> /\ dec_out[1].ok

\* C10: for a payload that decodes: with a field3 that holds '=', hash is the
\* text before the first '=' and alias the text from there to the next '=' or
\* to the end; with a field3 without '=', hash is field3 and alias is "app";
\* with exactly three fields, hash and alias are empty.
C10_HashAlias ==
    Decoded =>
        IF Len(dec_fields) >= 4
        THEN LET field3 == dec_fields[4]
             IN  IF HasChar(field3, "=")
                 THEN /\ dec_out[1].hash = Before(field3, "=")
                      /\ dec_out[1].alias = Before(After(field3, "="), "=")
                 ELSE /\ dec_out[1].hash = field3
                      /\ dec_out[1].alias = <<"a", "p", "p">>
        ELSE /\ dec_out[1].hash = <<>>
             /\ dec_out[1].alias = <<>>

\* C10 witness: the payload "16909060:0:4321:h=w=z" was decoded: hash "h",
\* alias "w".
C10_Witness ==
    /\ Decoded
    /\ dec_fields = <<<<"1", "6", "9", "0", "9", "0", "6", "0">>, <<"0">>,
                      <<"4", "3", "2", "1">>, <<"h", "=", "w", "=", "z">>>>
    /\ dec_out[1].hash = <<"h">>
    /\ dec_out[1].alias = <<"w">>

\* The payload has the three fields the decoder needs and its two numeric
\* fields are decimal numbers of their types.
NumericFieldsOk ==
    /\ Len(dec_fields) >= 3
    /\ ParseUnsigned(dec_fields[1], 4).ok
    /\ ParseUnsigned(dec_fields[3], 8).ok

LastSegment == dec_fields[Len(dec_fields)]

\* The key of one item of the metadata: the text before its first '=', trimmed.
ItemKey(item) == Trim(Before(Trim(item), "="))

\* The value of one item: the text between its first '=' and the next one (or
\* the end), trimmed; empty when the item holds no '='.
ItemValue(item) ==
    IF HasChar(item, "=") THEN Trim(Before(After(Trim(item), "="), "=")) ELSE <<>>

\* The items of the last segment: braces stripped, split on ','.
MetadataItems ==
    Split(TrimEndMatches(TrimStartMatches(LastSegment, "{"), "}"), ",")

\* C11: for a payload that decodes, metadata is present exactly when the last
\* segment begins with '{'; its keys are then the trimmed keys of the items
\* between the braces and every key maps to the trimmed value of an item with
\* that key (empty without '=', cut at a second '='); a last segment that does
\* not begin with '{' gives no metadata and never makes the decoding fail.
C11_Metadata ==
    dec_out # <<>> =>
        /\ (NumericFieldsOk /\ ~StartsWith(LastSegment, "{")) =>
              (dec_out[1].ok /\ ~dec_out[1].user_data.present)
        /\ dec_out[1].ok =>
              /\ dec_out[1].user_data.present <=> StartsWith(LastSegment, "{")
              /\ dec_out[1].user_data.present =>
                    LET map   == dec_out[1].user_data.map
                        items == MetadataItems
                    IN  /\ DOMAIN map = {ItemKey(items[i]) : i \in 1..Len(items)}
                        /\ \A k \in DOMAIN map :
                              \E i \in 1..Len(items) :
                                 ItemKey(items[i]) = k /\ ItemValue(items[i]) = map[k]

\* C11 witness: "16909060:0:4321:h:{ k = v ,q,k=2=3}" was decoded: the metadata
\* has the keys "k" and "q", and "q" maps to the empty string.
C11_Witness ==
    /\ Decoded
    /\ Len(dec_fields) = 5
    /\ dec_fields[5] = <<"{", " ", "k", " ", "=", " ", "v", " ", ",", "q", ",",
                         "k", "=", "2", "=", "3", "}">>
    /\ dec_out[1].user_data.present
    /\ DOMAIN dec_out[1].user_data.map = {<<"k">>, <<"q">>}
    /\ dec_out[1].user_data.map[<<"q">>] = <<>>
    /\ dec_out[1].user_data.map[<<"k">>] = <<"2">>

\* A decimal text without its optional '+' and its leading zeros.
RECURSIVE StripZeros(_)
StripZeros(s) ==
    IF Len(s) > 1 /\ Head(s) = "0" THEN StripZeros(Tail(s)) ELSE s

Canonical(s) == StripZeros(IF s # <<>> /\ Head(s) = "+" THEN Tail(s) ELSE s)

\* a <= b for two decimal texts without leading zeros.
RECURSIVE DigitsLeq(_, _)
DigitsLeq(a, b) ==
    IF a = <<>> THEN TRUE
    ELSE IF DigitVal(Head(a)) # DigitVal(Head(b)) THEN DigitVal(Head(a)) < DigitVal(Head(b))
    ELSE DigitsLeq(Tail(a), Tail(b))

DecimalLeq(a, b) == Len(a) < Len(b) \/ (Len(a) = Len(b) /\ DigitsLeq(a, b))

U32Max == <<"4", "2", "9", "4", "9", "6", "7", "2", "9", "5">>

U64Max == <<"1", "8", "4", "4", "6", "7", "4", "4", "0", "7", "3", "7", "0", "9", "5", "5",
           "1", "6", "1", "5">>

\* s is a decimal number (digits after an optional '+') no greater than max.
IsDecimalUpTo(s, max) ==
    LET digits == IF s # <<>> /\ Head(s) = "+" THEN Tail(s) ELSE s
    IN  /\ digits # <<>>
        /\ \A i \in 1..Len(digits) : IsDigit(digits[i])
        /\ DecimalLeq(StripZeros(digits), max)

\* The value of a decimal text of at most nine digits.
RECURSIVE IntOf(_, _)
IntOf(s, acc) == IF s = <<>> THEN acc ELSE IntOf(Tail(s), acc * 10 + DigitVal(Head(s)))

\* The four octets of n, most significant first.
Octets(n) ==
    <<n \div 16777216, (n \div 65536) % 256, (n \div 256) % 256, n % 256>>

Dotted(ip) ==
    DecOf(ip[1]) \o <<".">> \o DecOf(ip[2]) \o <<".">> \o DecOf(ip[3]) \o <<".">> \o DecOf(ip[4])

\* field0 is a decimal u32 and field2 a decimal u64.
C12_Numeric ==
    /\ Len(dec_fields) >= 3
    /\ IsDecimalUpTo(dec_fields[1], U32Max)
    /\ IsDecimalUpTo(dec_fields[3], U64Max)

\* C12: a payload whose field0 is a decimal u32 n and whose field2 is a decimal
\* u64 p decodes, whatever field1 holds, to the address whose octets are the
\* big-endian bytes of n, to pid p and to the tag "<dotted address>:-<p>";
\* decoding the same payload again gives an equal record.
C12_AddressPidTag ==
    (dec_out # <<>> /\ C12_Numeric) =>
        LET r == dec_out[1]
            n == Canonical(dec_fields[1])
            p == Canonical(dec_fields[3])
        IN  /\ r.ok
            /\ Len(r.ip) = 4 /\ \A i \in 1..4 : r.ip[i] \in 0..255
            /\ DecOfBytes(r.ip) = n
            /\ Len(n) <= 9 => r.ip = Octets(IntOf(n, 0))
            /\ n = U32Max => r.ip = <<255, 255, 255, 255>>
            /\ Len(r.pid) = 8 /\ \A i \in 1..8 : r.pid[i] \in 0..255
            /\ DecOfBytes(r.pid) = p
            /\ Len(p) <= 9 =>
                  r.pid = <<0, 0, 0, 0>> \o Octets(IntOf(p, 0))
            /\ r.tag = Dotted(r.ip) \o <<":", "-">> \o p
            /\ \A i \in 1..Len(dec_out) : dec_out[i] = r

\* C12 witness: "16909060:0:4321:abc123=worker" was decoded twice: address
\* 1.2.3.4, pid 4321, tag "1.2.3.4:-4321", both times.
C12_Witness ==
    /\ Len(dec_out) = 2
    /\ dec_fields = <<<<"1", "6", "9", "0", "9", "0", "6", "0">>, <<"0">>,
                      <<"4", "3", "2", "1">>,
                      <<"a", "b", "c", "1", "2", "3", "=", "w", "o", "r", "k", "e", "r">>>>
    /\ dec_out[1].ok
    /\ dec_out[1].ip = <<1, 2, 3, 4>>
    /\ dec_out[1].pid = <<0, 0, 0, 0, 0, 0, 16, 225>>
    /\ dec_out[1].tag = <<"1", ".", "2", ".", "3", ".", "4", ":", "-", "4", "3", "2", "1">>
    /\ dec_out[1].hash = <<"a", "b", "c", "1", "2", "3">>
    /\ dec_out[1].alias = <<"w", "o", "r", "k", "e", "r">>
    /\ dec_out[2] = dec_out[1]

\* C13 (as claimed): once a stop_producing call has executed its broadcast
\* step, the latch holds true, whatever the state the call was made in, so that
\* every subscriber, early or late, observes true.
C13_LatchSetByBroadcast == ctl.sends > 0 => sig_stop

\* C14 (as claimed): once stop_producing has returned on a running producer, no
\* worker takes another event from the queue and no record is sent to the
\* output channel.
C14_CancelImmediate ==
    [][StoppedRunning =>
         /\ out' = out
         /\ \A w \in Workers : wpc'[w] = "have" => wpc[w] = "have"
      ]_vars

\* Worker w ends the loop body for a well-formed event while the output channel
\* has no receiver: its send fails.
SendFails(w) ==
    /\ wpc[w] = "have"
    /\ wpc'[w] # "have"
    /\ Outcome(wev[w]) = "send"
    /\ out_closed

\* C15: a worker whose send on the output channel fails drops the record and
\* is back at the head of its loop, no other worker is affected, and from
\* there it receives the next event as soon as the queue holds one.
C15_SendFailureContinues ==
    /\ [][\A w \in Workers :
            SendFails(w) =>
               /\ out' = out
               /\ wpc'[w] = "run"
               /\ wev'[w] = NoEvent
               /\ \A v \in Workers \ {w} : wpc'[v] = wpc[v] /\ wev'[v] = wev[v]
               /\ queue' = queue
         ]_vars
    /\ [](\A w \in Workers :
            (wpc[w] = "run" /\ queue # <<>>) => ENABLED WorkerRecv(w))

\* C15 witness: the output channel was closed before any record reached it;
\* two well-formed events were each received and dropped, and all three
\* workers are still in their loops.
C15_Witness ==
    /\ out_closed
    /\ enq = {1, 2}
    /\ out = <<>>
    /\ queue = <<>>
    /\ \A w \in Workers : wpc[w] \in {"wait", "run"}
    /\ ctl.stops = 0

\* The step in which the monitor's subscribe returns.
SubscribeReturns == mon_pc = "subscribing" /\ mon_pc' # "subscribing"

\* C16: a monitor whose subscribe failed has ended for good without entering
\* the pump: no event was taken from the bus, none is or was in the queue and
\* no record is on the output channel; start_producing has returned Ok, and
\* the subscribe, failed or not, leaves the producer (its handles, its latch
\* and its broker) and the controller's results as they were.
C16_SubscribeFailureSilent ==
    /\ [](mon_pc = "exit_subscribe" =>
            /\ produced = 0
            /\ enq = {}
            /\ queue = <<>>
            /\ mon_ev = NoEvent
            /\ out = <<>>
            /\ \A w \in Workers : wev[w] = NoEvent
            /\ chan = "open"
            /\ ctl.last_start = "ok")
    /\ [][mon_pc = "exit_subscribe" => mon_pc' = "exit_subscribe"]_vars
    /\ [][SubscribeReturns =>
            UNCHANGED <<handles, sig_stop, managed_broker, broker_up, ctl, queue, out,
                        wpc, aborted>>
         ]_vars

\* C16 witness: the subscribe failed after a start_producing that returned Ok;
\* the three handles are tracked as after a successful subscribe.
C16_Witness ==
    /\ mon_pc = "exit_subscribe"
    /\ ctl.last_start = "ok"
    /\ Len(handles) = Concurrency
    /\ ctl.stops = 0

\* C17 (as claimed): a worker that has terminated was aborted, or it found the
\* queue empty with every sender dropped.
C17_TerminatesOnlyClosedOrAborted ==
    \A w \in Workers :
       WorkerDone(w) => (aborted[w] \/ (~SendersAlive /\ queue = <<>>))

\* The ids of the events sent by the monitor and not yet received: those in
\* the queue and that of a blocked send.
PendingIds == QueueIds \cup (IF mon_pc = "blocked" THEN {mon_ev.id} ELSE {})

\* Worker w receives an event in this step.
Dequeues(w) == wpc[w] # "have" /\ wpc'[w] = "have"

StartSucceeds == chan = "none" /\ chan' = "open"

\* C19: no handle is tracked before the successful start_producing and after a
\* stop_producing; in between exactly three are, those of the three worker
\* tasks, each once. A successful start spawns one monitor task and three
\* worker tasks; the handles change at no other step than a successful start
\* and a stop; the monitor's handle is never tracked and a stop leaves the
\* monitor task as it was.
C19_HandleLifecycle ==
    /\ [](chan = "none" =>
            (handles = <<>> /\ mon_pc = "none" /\ \A w \in Workers : wpc[w] = "none"))
    /\ [](handles = <<>> \/ (Len(handles) = 3 /\ Tracked = Workers))
    /\ [](Tracked \subseteq Workers)
    /\ [][StartSucceeds =>
            /\ handles = <<>>
            /\ Len(handles') = 3
            /\ Tracked' = Workers
            /\ mon_pc = "none" /\ mon_pc' = "subscribing"
            /\ rx_count' = rx_count + 1
            /\ \A w \in Workers : wpc[w] = "none" /\ wpc'[w] = "wait"
         ]_vars
    /\ [][handles' # handles => (StartSucceeds \/ (StopStep /\ handles' = <<>>))]_vars
    /\ [][StopStep =>
            (handles' = <<>> /\ mon_pc' = mon_pc /\ mon_ev' = mon_ev /\ rx_count' = rx_count)
         ]_vars

\* C19 witness: the producer was started, ran and was stopped: no handle is
\* tracked, the three workers are cancelled and the monitor, which
\* stop_producing did not abort, is still in its pump.
C19_Witness ==
    /\ StoppedRunning
    /\ produced > 0
    /\ mon_pc = "pump"
    /\ \A w \in Workers : wpc[w] = "cancelled" /\ aborted[w]

\* C20: a start_producing call never stops the managed broker: a broker that
\* is up stays up, and one whose start succeeded is up when the call returns,
\* also when the liveness check failed; the broker goes down only in a
\* stop_producing call, and every stop_producing call invokes the broker's stop
\* when a broker is managed, whether or not a start ever succeeded.
C20_StartNeverStopsBroker ==
    /\ [][StartStep =>
            /\ broker_up => broker_up'
            /\ (managed_broker /\ ctl'.in_broker_ok) => broker_up'
            /\ (managed_broker /\ ctl'.last_start = "err_online") => broker_up'
            /\ ctl'.broker_stops = ctl.broker_stops
         ]_vars
    /\ [][(broker_up /\ ~broker_up') => StopStep]_vars
    /\ [][StopStep =>
            /\ ctl'.broker_stops = ctl.broker_stops + (IF managed_broker THEN 1 ELSE 0)
            /\ (managed_broker /\ ctl'.in_stop_ok) => ~broker_up'
         ]_vars
    /\ [](broker_up => managed_broker)

\* C20 witness: the managed broker started, the liveness check failed, and a
\* stop_producing call, made though no start ever succeeded, stopped the
\* broker.
C20_Witness ==
    /\ managed_broker
    /\ ctl.last_start = "err_online"
    /\ ctl.in_broker_ok
    /\ chan = "none"
    /\ ctl.broker_stops = 1
    /\ ctl.last_stop = "ok"
    /\ ~broker_up

====
